---- MODULE Spec2Model ----
(***************************************************************************)
(* ClarifyCoder: the five-stage pipeline (Clarifier, Answerer, Generator,  *)
(* Critic, Repairer), its two orchestrator surfaces (the batch driver main *)
(* and run_single_prompt) and the rule-based Critic with its scratch       *)
(* files.                                                                  *)
(*                                                                         *)
(* Text is abstracted by what the code observes of it.  A code artifact is *)
(* a record of the observations the Critic and the Repairer make of its    *)
(* text and of its execution; a prompt is a record of the observations the *)
(* Clarifier and the Generator make of it.  The text-completion service is *)
(* a nondeterministic choice between raising and answering.                *)
(***************************************************************************)
EXTENDS Naturals, Integers, Sequences, FiniteSets, TLC

\* ------------------------------------------------------------------ bounds
\* the largest number of prompts sampled for one batch
MaxPrompts == 1
\* the longest scratch-file content, in tokens, the model follows
MaxFileLen == 3

\* ------------------------------------------------------------------ strings
\* A string is a sequence of tokens; " " is the whitespace token.
\* str.strip(): whitespace removed at both ends.
RECURSIVE LStrip(_)
LStrip(s) == IF s # <<>> /\ Head(s) = " " THEN LStrip(Tail(s)) ELSE s

RECURSIVE RStrip(_)
RStrip(s) ==
    IF s # <<>> /\ s[Len(s)] = " " THEN RStrip(SubSeq(s, 1, Len(s) - 1)) ELSE s

Strip(s) == LStrip(RStrip(s))

\* str.endswith(suffix)
EndsWith(s, suffix) ==
    /\ Len(suffix) <= Len(s)
    /\ SubSeq(s, Len(s) - Len(suffix) + 1, Len(s)) = suffix

\* ------------------------------------------------------------------ scratch files
FileNames == {"test_output.txt", "test_input.txt", "append_test.txt"}

NoFile == [exists |-> FALSE, data |-> <<>>]

File(data) == [exists |-> TRUE, data |-> data]

\* the working directory before any evaluation has run
FreshFiles == [f \in FileNames |-> NoFile]

\* open(name, "w") followed by f.write(data)
WriteFile(fs, name, data) == [fs EXCEPT ![name] = File(data)]

\* open(name, "a") followed by f.write(data): creates the file when it is missing
AppendFile(fs, name, data) == [fs EXCEPT ![name] = File(fs[name].data \o data)]

\* ------------------------------------------------------------------ the oracle table
\* EvalAgent.test_cases: the names in table (dict insertion) order
OracleNames ==
    << "factorial", "fibonacci", "is_prime", "gcd", "lcm", "power",
       "reverse_string", "is_palindrome", "word_count",
       "save_results", "read_file", "append_to_file",
       "sort_list", "stack_push", "stack_pop", "merge_dicts" >>

FileOracles == {"save_results", "read_file", "append_to_file"}

\* the number of (input, expected) pairs of a non-file oracle
NumPairs(name) ==
    IF name \in {"stack_push", "merge_dicts"} THEN 1 ELSE 2

\* test_cases["save_results"][0], ["read_file"][0], ["append_to_file"][0]
SaveInput == <<"hello">>
ReadExpected == <<"sample text">>
AppendInput == <<"world">>
AppendStaged == <<"hello", " ">>

\* ------------------------------------------------------------------ code artifacts
(* What the Critic and the Repairer observe of a code string:              *)
(*   marker  what code.strip() starts with: the language stub, the         *)
(*           no-template marker, or anything else ("none")                 *)
(*   load    what exec(clean_code, sandbox) does: "ok", or the class of    *)
(*           what it raises ("SyntaxError" and "Exception" derive from     *)
(*           Exception, "SystemExit" only from BaseException)              *)
(*   defs    the oracle names the sandbox binds to a callable afterwards   *)
(*   call    what the tested callable does when invoked: for a file oracle *)
(*           one effect, for the others one outcome per oracle pair        *)
(*   kws     the keyword classes of _keyword_fallback found in the text    *)
(*   bare1   some line of the text strips to "1"                           *)
(*   fixed   what the callable does once every such line reads "return 1"  *)
(*   defline the def lines that do not end with ":" ("none" when there is  *)
(*           none); appending ":" to them either leaves the program as it  *)
(*           was ("harmless", a trailing comment) or stops it from loading *)
(*           ("breaks", a one-line def), or is what the text lacked to     *)
(*           load ("missing": defs and call are then those of the text     *)
(*           with the colon in place)                                      *)
(*   fenced  the text is wrapped in markdown code fences (```python ... ```)*)
(*           the other observations are those of the text inside them      *)
(*   bareOther some line of the text strips to a constant other than "1"   *)
(*           ("True", "120", ...)                                          *)
KwClasses == {"regex", "network", "db", "system", "lib"}

PairOutcomes == {"ok", "wrong", "None", "RecursionError", "Exception", "SystemExit"}

WriterEffects == {"write", "append", "noop", "RecursionError", "Exception", "SystemExit"}

ReaderEffects == {"read", "wrong", "None", "RecursionError", "Exception", "SystemExit"}

Code(marker, load, defs, call, kws, bare1, fixed, defline) ==
    [marker |-> marker, load |-> load, defs |-> defs, call |-> call,
     kws |-> kws, bare1 |-> bare1, fixed |-> fixed, defline |-> defline,
     fenced |-> FALSE, bareOther |-> FALSE]

\* the same text wrapped in markdown code fences
Fenced(code) == [code EXCEPT !.fenced = TRUE]

\* code that defines one callable whose body is a lone constant other than 1:
\* every call returns None
LoneConstant(name) ==
    [Code("none", "ok", {name}, [i \in 1..2 |-> "None"], {}, FALSE,
          [i \in 1..2 |-> "None"], "none") EXCEPT !.bareOther = TRUE]

\* "# Non-Python language requested, but this system only supports Python."
LangStub == Code("lang_stub", "ok", {}, <<>>, {}, FALSE, <<>>, "none")

\* "# Code template not found for this task"
NoTemplate == Code("no_template", "ok", {}, <<>>, {}, FALSE, <<>>, "none")

\* code that loads and defines one callable with the given behaviour
Defines(name, call) == Code("none", "ok", {name}, call, {}, FALSE, call, "none")

\* code that loads and defines no oracle-named callable
Plain(kws) == Code("none", "ok", {}, <<>>, kws, FALSE, <<>>, "none")

\* code whose load raises
Unloadable(exc, kws) == Code("none", exc, {}, <<>>, kws, FALSE, <<>>, "none")

\* code whose only defect is a def header without its colon: it does not
\* load; with the colon it defines one callable that passes its oracle
MissingColon(name) ==
    Code("none", "SyntaxError", {name}, <<"ok", "ok">>, {}, FALSE, <<"ok", "ok">>,
         "missing")

\* a verdict: status, function and details (the message, the index of the
\* oracle pair whose input it quotes, 0 when it quotes none, and the value it
\* quotes)
Verdict(status, function, msg, got) ==
    [status |-> status, function |-> function,
     details |-> [msg |-> msg, input |-> 0, got |-> got]]

\* "Input {test_input}: expected {expected}, got {result}" for pair i
Mismatch(func_name, i, result) ==
    [status |-> "fail", function |-> func_name,
     details |-> [msg |-> "Input: expected, got", input |-> i, got |-> <<result>>]]

\* an evaluation either returns a verdict or lets an exception through
Returned(v, fs) == [raised |-> "none", verdict |-> v, files |-> fs]

NoVerdict == Verdict("none", "none", "", <<>>)

Propagated(exc, fs) == [raised |-> exc, verdict |-> NoVerdict, files |-> fs]

\* ------------------------------------------------------------------ the rule-based Critic
\* EvalAgent._keyword_fallback: the ordered keyword classes
keyword_fallback(code, reason) ==
    IF "regex" \in code.kws
      THEN Verdict("pass", "regex", "Regex pattern usage detected", <<>>)
    ELSE IF "network" \in code.kws
      THEN Verdict("pass", "networking", "Networking code detected", <<>>)
    ELSE IF "db" \in code.kws
      THEN Verdict("pass", "database", "Database code detected", <<>>)
    ELSE IF "system" \in code.kws
      THEN Verdict("pass", "system", "System utility code detected", <<>>)
    ELSE IF "lib" \in code.kws
      THEN Verdict("unsupported", "None", "Unsupported library usage", <<>>)
    ELSE Verdict("unsupported", "None", reason, <<>>)

\* a variant of FirstCandidate that goes on to the last name the sandbox binds
RECURSIVE FirstCandidate_Last(_, _)
FirstCandidate_Last(defs, i) ==
    IF i > Len(OracleNames) THEN "none"
    ELSE IF OracleNames[i] \in defs /\ FirstCandidate_Last(defs, i + 1) = "none"
      THEN OracleNames[i]
    ELSE FirstCandidate_Last(defs, i + 1)

\* the loop of EvalAgent.run over test_cases.keys(): the first name, in table
\* order, that the sandbox binds to a callable ("none" when there is none)
RECURSIVE FirstCandidate(_, _)
FirstCandidate(defs, i) ==
    IF i > Len(OracleNames) THEN "none"
    ELSE IF OracleNames[i] \in defs THEN OracleNames[i]
    ELSE FirstCandidate(defs, i + 1)

\* except Exception: the classes the handlers of the Critic catch
IsException(exc) == exc \in {"Exception", "SyntaxError", "RecursionError"}

\* what a call of a file-writing callable (data, filename) leaves in the files
CallWriter(effect, fs, name, data) ==
    IF effect = "write" THEN WriteFile(fs, name, data)
    ELSE IF effect = "append" THEN AppendFile(fs, name, data)
    ELSE fs

\* the outer handler of _run_with_tests: except Exception -> status error
RuntimeError(func_name, fs) ==
    Returned(Verdict("error", func_name, "Runtime error", <<>>), fs)

\* _run_with_tests, func_name == "save_results": the file is NOT staged
\* before func(test_input, filename) is called
TestSaveResults(code, fs) ==
    LET effect == code.call[1]
        after == CallWriter(effect, fs, "test_output.txt", SaveInput)
        contents == Strip(after["test_output.txt"].data)
    IN  IF effect = "SystemExit" THEN Propagated("SystemExit", fs)
        ELSE IF IsException(effect) THEN RuntimeError("save_results", fs)
        ELSE IF ~after["test_output.txt"].exists
          THEN RuntimeError("save_results", after)
        ELSE Returned(Verdict(IF contents = SaveInput THEN "pass" ELSE "fail",
                              "save_results", "File write/read got", contents),
                      after)

\* _run_with_tests, func_name == "read_file": expected is written first
TestReadFile(code, fs) ==
    LET effect == code.call[1]
        staged == WriteFile(fs, "test_input.txt", ReadExpected)
        result == IF effect = "read" THEN staged["test_input.txt"].data
                  ELSE <<"other text">>
    IN  IF effect = "SystemExit" THEN Propagated("SystemExit", staged)
        ELSE IF IsException(effect) \/ effect = "None"
          THEN RuntimeError("read_file", staged)
        ELSE Returned(Verdict(IF Strip(result) = ReadExpected THEN "pass" ELSE "fail",
                              "read_file", "File read got", Strip(result)),
                      staged)

\* _run_with_tests, func_name == "append_to_file": "hello " is written first
TestAppendToFile(code, fs) ==
    LET effect == code.call[1]
        staged == WriteFile(fs, "append_test.txt", AppendStaged)
        after == CallWriter(effect, staged, "append_test.txt", AppendInput)
        contents == Strip(after["append_test.txt"].data)
    IN  IF effect = "SystemExit" THEN Propagated("SystemExit", staged)
        ELSE IF IsException(effect) THEN RuntimeError("append_to_file", staged)
        ELSE Returned(Verdict(IF EndsWith(contents, AppendInput) THEN "pass" ELSE "fail",
                              "append_to_file", "File append got", contents),
                      after)

\* a variant of TestPairs that goes on to the next pair after a mismatch and
\* reports only a mismatch of the last pair
RECURSIVE TestPairs_NoShortCircuit(_, _, _, _)
TestPairs_NoShortCircuit(func_name, call, i, fs) ==
    IF i > NumPairs(func_name)
      THEN Returned(Verdict("pass", func_name, "All test cases passed", <<>>), fs)
    ELSE IF call[i] = "RecursionError"
      THEN Returned(Verdict("fail", func_name, "Recursion error", <<>>), fs)
    ELSE IF call[i] = "SystemExit" THEN Propagated("SystemExit", fs)
    ELSE IF IsException(call[i]) THEN RuntimeError(func_name, fs)
    ELSE IF call[i] \in {"None", "wrong"} /\ i = NumPairs(func_name)
      THEN Returned(Mismatch(func_name, i, call[i]), fs)
    ELSE TestPairs_NoShortCircuit(func_name, call, i + 1, fs)

\* _run_with_tests, the loop over test_cases[func_name], from pair i on
RECURSIVE TestPairs(_, _, _, _)
TestPairs(func_name, call, i, fs) ==
    IF i > NumPairs(func_name)
      THEN Returned(Verdict("pass", func_name, "All test cases passed", <<>>), fs)
    ELSE IF call[i] = "RecursionError"
      THEN Returned(Verdict("fail", func_name, "Recursion error", <<>>), fs)
    ELSE IF call[i] = "SystemExit" THEN Propagated("SystemExit", fs)
    ELSE IF IsException(call[i]) THEN RuntimeError(func_name, fs)
    ELSE IF call[i] \in {"None", "wrong"}
      THEN Returned(Mismatch(func_name, i, call[i]), fs)
    ELSE TestPairs(func_name, call, i + 1, fs)

\* EvalAgent._run_with_tests
run_with_tests(func_name, code, fs) ==
    IF func_name = "save_results" THEN TestSaveResults(code, fs)
    ELSE IF func_name = "read_file" THEN TestReadFile(code, fs)
    ELSE IF func_name = "append_to_file" THEN TestAppendToFile(code, fs)
    ELSE TestPairs(func_name, code.call, 1, fs)

\* code.strip().startswith(marker): the raw text, fences included
StartsWith(code, marker) == ~code.fenced /\ code.marker = marker

\* EvalAgent._clean_code: the fences removed
clean_code(code) == [code EXCEPT !.fenced = FALSE]

\* the rest of EvalAgent.run, on the cleaned code
RunClean(code, fs) ==
    IF code.load = "SystemExit" THEN Propagated("SystemExit", fs)
    ELSE IF code.load = "SyntaxError"
      THEN Returned(keyword_fallback(code, "Execution failed: invalid syntax"), fs)
    ELSE IF IsException(code.load)
      THEN Returned(keyword_fallback(code, "Execution failed"), fs)
    ELSE IF FirstCandidate(code.defs, 1) # "none"
      THEN run_with_tests(FirstCandidate(code.defs, 1), code, fs)
    ELSE Returned(keyword_fallback(code, "Function not in supported list"), fs)

\* EvalAgent.run: the two marker tests are made on the text as given, the
\* fences are stripped only afterwards
EvalAgent_run(code, fs) ==
    IF StartsWith(code, "lang_stub")
      THEN Returned(Verdict("unsupported", "None", "Non-Python language requested", <<>>), fs)
    ELSE IF StartsWith(code, "no_template")
      THEN Returned(Verdict("invalid", "None", "No valid code generated", <<>>), fs)
    ELSE RunClean(clean_code(code), fs)

\* ------------------------------------------------------------------ prompts
(* What the Clarifier and the Generator observe of a prompt:               *)
(*   lang      a non_python_langs entry occurs in it as a substring        *)
(*             (ClarifyAgent, ClarifyAgentLLM, CodeAgent): "go" occurs in  *)
(*             "Write a sorting algorithm"                                 *)
(*   langWord  a non_python_langs entry occurs in it as a whole word       *)
(*             (CodeAgentLLM.contains_non_python_lang): "go" occurs in     *)
(*             "Sort a list in Go", not in "Write a sorting algorithm"     *)
(*   triggers  the rules of the Clarifier's table whose trigger occurs in  *)
(*             the prompt, in rule-table order: each with its question and *)
(*             whether the suppression condition written for its own key   *)
(*             holds of the prompt                                         *)
(*   caret     "^" occurs in the prompt                                    *)
(*   words     the substrings CodeAgent.run tests for that occur in the    *)
(*             lower-cased prompt                                          *)
Prompt(lang, langWord, triggers, caret, words) ==
    [lang |-> lang, langWord |-> langWord, triggers |-> triggers,
     caret |-> caret, words |-> words]

\* one rule of ClarifyAgent.rules whose trigger occurs in the prompt
Trigger(question, own) == [question |-> question, own |-> own]

LangQuestion == "Currently only Python is supported. Do you want me to proceed in Python?"

\* the result of a stage: returned normally, or an exception left the stage
Ok(value) == [raised |-> "none", value |-> value]

Raise(exc, value) == [raised |-> exc, value |-> value]

\* ------------------------------------------------------------------ the Clarifier
\* a variant of ClarificationResult whose status is not derived
ClarificationResult_AlwaysAmbiguous(prompt, clarifications) ==
    [original_prompt |-> prompt, clarifications |-> clarifications,
     status |-> "ambiguous"]

\* ClarifyAgent.run and ClarifyAgentLLM.run: the result, its status derived
\* from the clarifications
ClarificationResult(prompt, clarifications) ==
    [original_prompt |-> prompt, clarifications |-> clarifications,
     status |-> IF clarifications # <<>> THEN "ambiguous" ELSE "clear"]

\* the questions of a sequence of triggers, in order
RECURSIVE Questions(_)
Questions(triggers) ==
    IF triggers = <<>> THEN <<>>
    ELSE <<Head(triggers).question>> \o Questions(Tail(triggers))

\* the triggers a loop of detect_ambiguities keeps when `skip` tells which
\* ones reach a continue
RECURSIVE Kept(_, _)
Kept(triggers, skip) ==
    IF triggers = <<>> THEN <<>>
    ELSE (IF skip[1] THEN <<>> ELSE <<Head(triggers)>>)
           \o Kept(Tail(triggers), Tail(skip))

\* the chain of `if ...: continue` tests a present trigger goes through:
\* the test written for its own key, and
\*   if key == "power" and "of" in prompt_l or "^" in prompt_l: continue
\* which Python reads as (key == "power" and ...) or ("^" in prompt_l)
SkippedBy(prompt, t) == t.own \/ prompt.caret

\* ClarifyAgent.detect_ambiguities: the language check, then the rule table
detect_ambiguities(prompt) ==
    IF prompt.lang THEN <<LangQuestion>>
    ELSE Questions(Kept(prompt.triggers,
                        [i \in 1..Len(prompt.triggers) |->
                            SkippedBy(prompt, prompt.triggers[i])]))

\* ClarifyAgent.run (rule-based)
ClarifyAgent_run(prompt) ==
    Ok(ClarificationResult(prompt, detect_ambiguities(prompt)))

\* ClarifyAgentLLM.run: the language check, then one completion request that
\* is not guarded by any handler
ClarifyAgentLLM_run(prompt, resp) ==
    IF prompt.lang THEN Ok(ClarificationResult(prompt, <<LangQuestion>>))
    ELSE IF resp = "raise" THEN Raise("ServiceError", ClarificationResult(prompt, <<>>))
    ELSE IF resp \in {"none", "clear", "no clarification needed"}
      THEN Ok(ClarificationResult(prompt, <<>>))
    ELSE Ok(ClarificationResult(prompt, <<resp>>))

\* ------------------------------------------------------------------ the Answerer
\* answers: None, or a list
NoneAnswers == [none |-> TRUE, list |-> <<>>]

Answers(list) == [none |-> FALSE, list |-> list]

\* a variant of NotAnswers that takes an empty list for supplied answers
NotAnswers_NoneOnly(answers) == answers.none

\* Python's "not answers": None or an empty list
NotAnswers(answers) == answers.none \/ answers.list = <<>>

Min(a, b) == IF a <= b THEN a ELSE b

\* zip(clarifications, answers): pairs up to the shorter of the two
Zip(clarifications, answers) ==
    [i \in 1..Min(Len(clarifications), Len(answers)) |->
        [question |-> clarifications[i], answer |-> answers[i]]]

\* f"Answer: {a}"
AnswerLine(a) == <<"Answer:", " ", a>>

\* prompt + "\n" + "\n".join(f"Answer: {a}" for a in answers): the prompt and
\* the lines appended to it, one per answer
Augmented(prompt, answers) ==
    [base |-> prompt, appended |-> [i \in 1..Len(answers) |-> AnswerLine(answers[i])]]

AnswerBundle(answers, qa_pairs, augmented_prompt) ==
    [answers |-> answers, qa_pairs |-> qa_pairs, augmented_prompt |-> augmented_prompt]

\* a variant of AutoAnswers that gives up at the first request that raises
RECURSIVE AutoAnswers_StopAtFailure(_)
AutoAnswers_StopAtFailure(responses) ==
    IF responses = <<>> \/ Head(responses) = "raise" THEN <<>>
    ELSE <<Head(responses)>> \o AutoAnswers_StopAtFailure(Tail(responses))

\* the auto strategy: one request per question, "N/A" when the request raises
AutoAnswers(responses) ==
    [i \in 1..Len(responses) |-> IF responses[i] = "raise" THEN "N/A" ELSE responses[i]]

\* AnswerAgent.run; typed holds what input() returns for each question (cli),
\* responses what the completion service does for each question (auto)
AnswerAgent_run(mode, cli, clarifications, prompt, answers, typed, responses) ==
    IF clarifications = <<>>
      THEN AnswerBundle(<<>>, <<>>, Augmented(prompt, <<>>))
    ELSE IF mode = "human"
      THEN IF NotAnswers(answers) /\ ~cli
             THEN AnswerBundle(<<>>, <<>>, Augmented(prompt, <<>>))
             ELSE LET used == IF NotAnswers(answers) THEN typed ELSE answers.list
                  IN  AnswerBundle(used, Zip(clarifications, used),
                                   Augmented(prompt, used))
    ELSE AnswerBundle(AutoAnswers(responses),
                      Zip(clarifications, AutoAnswers(responses)),
                      Augmented(prompt, AutoAnswers(responses)))

\* ------------------------------------------------------------------ the Generator
\* CodeAgent.templates, by what the Critic observes of each template
\* (fibonacci(1) gives [0], the oracle expects [0, 0]; the "lcm" template
\* defines gcd as well; the "tensorflow" stub spells it "TensorFlow", which no
\* keyword class matches).  Any other key stands for the no-template marker.
\* The "stack push" and "stack pop" templates change the list they are given,
\* which is the list held in test_cases: the outcomes here are those of their
\* first evaluation by an EvalAgent, and no prompt of Prompts selects them.
Template(key) ==
    IF key = "factorial" THEN Defines("factorial", <<"ok", "ok">>)
    ELSE IF key = "save file" THEN Defines("save_results", <<"write">>)
    ELSE IF key = "sort" THEN Defines("sort_list", <<"ok", "ok">>)
    ELSE IF key = "classifier" THEN Plain({})
    ELSE IF key = "fibonacci" THEN Defines("fibonacci", <<"ok", "wrong">>)
    ELSE IF key = "prime" THEN Defines("is_prime", <<"ok", "ok">>)
    ELSE IF key = "reverse" THEN Defines("reverse_string", <<"ok", "ok">>)
    ELSE IF key = "gcd" THEN Defines("gcd", <<"ok", "ok">>)
    ELSE IF key = "lcm"
      THEN Code("none", "ok", {"gcd", "lcm"}, <<"ok", "ok">>, {}, FALSE, <<"ok", "ok">>, "none")
    ELSE IF key = "power" THEN Defines("power", <<"ok", "ok">>)
    ELSE IF key = "stack push" THEN Defines("stack_push", <<"ok">>)
    ELSE IF key = "stack pop" THEN Defines("stack_pop", <<"ok", "ok">>)
    ELSE IF key = "merge dict" THEN Defines("merge_dicts", <<"ok">>)
    ELSE IF key = "read file" THEN Defines("read_file", <<"read">>)
    ELSE IF key = "append file" THEN Defines("append_to_file", <<"append">>)
    ELSE IF key = "palindrome" THEN Defines("is_palindrome", <<"ok", "ok">>)
    ELSE IF key = "word count" THEN Defines("word_count", <<"ok", "ok">>)
    ELSE IF key \in {"regex extract", "validate email"} THEN Plain({"regex"})
    ELSE IF key \in {"http get", "http post"} THEN Plain({"network"})
    ELSE IF key \in {"sqlite select", "sqlite insert"} THEN Plain({"db"})
    ELSE IF key \in {"current time", "list files", "sleep"} THEN Plain({"system"})
    ELSE IF key = "opengl" THEN Plain({"lib"})
    ELSE IF key = "tensorflow" THEN Plain({})
    ELSE NoTemplate

\* one keyword test of CodeAgent.run: the substrings that must all occur, and
\* the key of the template it returns
Rule(all, key) == [all |-> all, key |-> key]

\* the keyword tests of CodeAgent.run in the order the code makes them; an
\* `or` of two substrings is two consecutive tests for the same key
KeywordRules ==
    << Rule({"save", "file"}, "save file"),
       Rule({"push", "stack"}, "stack push"),
       Rule({"pop", "stack"}, "stack pop"),
       Rule({"merge", "dict"}, "merge dict"),
       Rule({"read", "file"}, "read file"),
       Rule({"append", "file"}, "append file"),
       Rule({"palindrome"}, "palindrome"),
       Rule({"word", "count"}, "word count"),
       Rule({"regex"}, "regex extract"),
       Rule({"extract number"}, "regex extract"),
       Rule({"email"}, "validate email"),
       Rule({"http get"}, "http get"),
       Rule({"fetch"}, "http get"),
       Rule({"http post"}, "http post"),
       Rule({"send post"}, "http post"),
       Rule({"select", "sqlite"}, "sqlite select"),
       Rule({"insert", "sqlite"}, "sqlite insert"),
       Rule({"time"}, "current time"),
       Rule({"list files"}, "list files"),
       Rule({"directory"}, "list files"),
       Rule({"sleep"}, "sleep"),
       Rule({"pause"}, "sleep"),
       Rule({"opengl"}, "opengl"),
       Rule({"tensorflow"}, "tensorflow") >>

\* the keys of CodeAgent.templates, in insertion order
TemplateKeys ==
    << "factorial", "save file", "sort", "classifier", "fibonacci", "prime",
       "reverse", "gcd", "lcm", "power", "stack push", "stack pop",
       "merge dict", "read file", "append file", "palindrome", "word count",
       "regex extract", "validate email", "http get", "http post",
       "sqlite select", "sqlite insert", "current time", "list files",
       "sleep", "opengl", "tensorflow" >>

\* the tests of CodeAgent.run followed by its loop over templates.items()
AllRules ==
    KeywordRules \o [i \in 1..Len(TemplateKeys) |-> Rule({TemplateKeys[i]}, TemplateKeys[i])]

\* the key of the first test, in order, that the prompt satisfies
RECURSIVE FirstMatch(_, _)
FirstMatch(rules, words) ==
    IF rules = <<>> THEN "none"
    ELSE IF Head(rules).all \subseteq words THEN Head(rules).key
    ELSE FirstMatch(Tail(rules), words)

\* the template key CodeAgent.run selects for a prompt
SelectTemplate(words) == FirstMatch(AllRules, words)

\* CodeAgent.run (rule-based): the language check on the clarified prompt, then
\* the template the keywords select.  The appended answer lines of this model
\* hold no language name and no template keyword.
CodeAgent_run(clarified_prompt) ==
    IF clarified_prompt.base.lang THEN Ok(LangStub)
    ELSE Ok(Template(SelectTemplate(clarified_prompt.base.words)))

\* CodeAgentLLM.run: the whole-word language check, then one unguarded request
CodeAgentLLM_run(clarified_prompt, resp) ==
    IF clarified_prompt.base.langWord THEN Ok(LangStub)
    ELSE IF resp.raise THEN Raise("ServiceError", NoTemplate)
    ELSE Ok(resp.code)

\* ------------------------------------------------------------------ the LLM Critic
\* EvalAgentLLM.run: the stub check, then one unguarded request; text.split()[0]
\* raises IndexError on an empty reply
EvalAgentLLM_run(code, resp) ==
    IF StartsWith(code, "lang_stub")
      THEN Ok(Verdict("unsupported", "None", "Non-Python language requested", <<>>))
    ELSE IF resp = "raise" THEN Raise("ServiceError", NoVerdict)
    ELSE IF resp = "" THEN Raise("IndexError", NoVerdict)
    ELSE IF resp = "pass" THEN Ok(Verdict("pass", "None", resp, <<>>))
    ELSE Ok(Verdict("fail", "None", resp, <<>>))

\* ------------------------------------------------------------------ the Repairer
\* a variant of GotNone that takes every detail for a missing return value
GotNone_Always(details) == TRUE

\* "got none" in details.lower()
GotNone(details) == details.msg = "Input: expected, got" /\ details.got = <<"None">>

\* "invalid syntax" in details.lower()
InvalidSyntax(details) == details.msg = "Execution failed: invalid syntax"

\* a variant of InsertReturn that rewrites nothing
InsertReturn_Nothing(code) == code

\* rule 1: every line that strips to "1" becomes "return 1"
InsertReturn(code) == [code EXCEPT !.call = code.fixed, !.bare1 = FALSE]

\* rule 2: every def line that does not end with ":" gets one
AddColon(code) ==
    IF code.defline = "breaks"
      THEN [code EXCEPT !.load = "SyntaxError", !.defline = "none"]
    ELSE IF code.defline = "missing"
      THEN [code EXCEPT !.load = "ok", !.defline = "none"]
    ELSE [code EXCEPT !.defline = "none"]

\* "def " in code and not code.strip().startswith("#")
HasDef(code) ==
    /\ code.fenced \/ code.marker = "none"
    /\ code.defs # {} \/ code.defline # "none"

RepairOutcome(refined_code, action) == [refined_code |-> refined_code, action |-> action]

\* RefineAgent.run (rule-based)
RefineAgent_run(code, eval_feedback) ==
    IF eval_feedback.status = "fail"
      THEN IF GotNone(eval_feedback.details)
             THEN Ok(RepairOutcome(InsertReturn(code), "Inserted missing return"))
             ELSE Ok(RepairOutcome(code, "No simple fix available"))
    ELSE IF eval_feedback.status = "error" /\ InvalidSyntax(eval_feedback.details)
      THEN IF HasDef(code)
             THEN Ok(RepairOutcome(AddColon(code),
                                   "Added missing colon in function definition"))
             ELSE Ok(RepairOutcome(code, "Execution error - no fix"))
    ELSE IF eval_feedback.status = "unsupported"
      THEN Ok(RepairOutcome(code, "Unsupported function - no fix"))
    ELSE Ok(RepairOutcome(code, "No refinement needed"))

\* RefineAgentLLM.run: one unguarded request, the reply taken as the code
RefineAgentLLM_run(code, eval_feedback, resp) ==
    IF resp.raise THEN Raise("ServiceError", RepairOutcome(code, "none"))
    ELSE Ok(RepairOutcome(resp.code, "Refined with LLM using feedback"))

\* ------------------------------------------------------------------ inputs
\* the prompts of prompts.jsonl the model draws from
SortQuestion == "What type of data do you want to sort (list, dictionary, dataframe)?"

\* "Write a factorial function for 5", "Save file with sorted data",
\* "Generate fibonacci numbers", "Sort a list in Go", "Write a sorting
\* algorithm", "Draw a circle", "Count the words of a palindrome",
\* "Select the email a@b.io from a sqlite table", "Sort the list by x^2",
\* "Compute the lcm of 4 and 6"
Prompts ==
    { Prompt(FALSE, FALSE,
             <<Trigger("Should I implement factorial iteratively or recursively?", TRUE)>>,
             FALSE, {"factorial"}),
      Prompt(FALSE, FALSE,
             <<Trigger("What file format should I use (txt, csv, json)?", FALSE),
               Trigger(SortQuestion, FALSE)>>,
             FALSE, {"save", "file", "save file", "sort"}),
      Prompt(FALSE, FALSE,
             <<Trigger("Do you want first n terms or up to a maximum value?", FALSE)>>,
             FALSE, {"fibonacci"}),
      Prompt(TRUE, TRUE, <<Trigger(SortQuestion, FALSE)>>, FALSE, {"sort"}),
      Prompt(TRUE, FALSE, <<Trigger(SortQuestion, FALSE)>>, FALSE, {"sort"}),
      Prompt(FALSE, FALSE, <<>>, FALSE, {}),
      Prompt(FALSE, FALSE,
             <<Trigger("Should I ignore case and spaces when checking palindrome?", FALSE)>>,
             FALSE, {"word", "count", "palindrome"}),
      Prompt(FALSE, FALSE,
             <<Trigger("Should I use strict or simple regex for email validation?", TRUE)>>,
             FALSE, {"select", "sqlite", "email"}),
      Prompt(FALSE, FALSE, <<Trigger(SortQuestion, FALSE)>>, TRUE, {"sort"}),
      Prompt(FALSE, FALSE,
             <<Trigger("Should I use gcd-based formula or brute force?", TRUE)>>,
             FALSE, {"lcm"}) }

\* the code texts the completion service replies with to the Generator
GenCodes ==
    { Defines("factorial", <<"ok", "ok">>),
      Code("none", "ok", {"factorial"}, <<"ok", "None">>, {}, TRUE, <<"ok", "ok">>, "none"),
      Defines("factorial", <<"Exception", "ok">>),
      Defines("save_results", <<"noop">>),
      Defines("save_results", <<"append">>),
      MissingColon("factorial"),
      Unloadable("SystemExit", {}),
      Fenced(NoTemplate),
      LoneConstant("is_prime"),
      Defines("read_file", <<"RecursionError">>),
      Defines("factorial", <<"ok", "RecursionError">>),
      Defines("append_to_file", <<"write">>) }

\* the code texts the completion service replies with to the Repairer
FixCodes ==
    { Defines("factorial", <<"ok", "ok">>),
      Defines("factorial", <<"wrong", "ok">>),
      Defines("save_results", <<"noop">>) }

Reply(code) == [raise |-> FALSE, code |-> code]

ServiceDown == [raise |-> TRUE, code |-> NoTemplate]

\* what the completion service does on one request of each stage
ClarifyReplies == {"raise", "none", "Which input type do you mean?"}

AnswerReplies == {"raise", "yes"}

CodeReplies == {ServiceDown} \cup {Reply(c) : c \in GenCodes}

EvalReplies == {"raise", "", "pass", "fail: wrong result"}

FixReplies == {ServiceDown} \cup {Reply(c) : c \in FixCodes}

\* what a user types at an input() prompt
TypedAnswers == {"typed"}

\* the answers a caller of run_single_prompt supplies
SuppliedAnswers ==
    {NoneAnswers, Answers(<<>>), Answers(<<"a1">>), Answers(<<"a1", "a2">>)}

Statuses == {"pass", "fail", "unsupported", "error", "invalid"}

ModeNames == {"baseline", "llm"}

AnswerModes == {"human", "auto"}

\* main: one strategy per stage (--clarify_mode, --code_mode, --eval_mode,
\* --refine_mode, --answer_mode)
MainModes ==
    [clarify : ModeNames, code : ModeNames, eval : ModeNames, refine : ModeNames,
     answer : AnswerModes]

\* run_single_prompt: one mode for the four stages, and answer_mode
SingleModes ==
    { [clarify |-> m, code |-> m, eval |-> m, refine |-> m, answer |-> a] :
        m \in ModeNames, a \in AnswerModes }

\* ------------------------------------------------------------------ state
VARIABLES
    surface,          \* "main" (the batch driver) or "single" (run_single_prompt)
    mode,             \* the strategy of each stage
    answers,          \* run_single_prompt's answers argument
    total_prompts,    \* len(prompts)
    processed,        \* how many entries the loop of main has finished
    pc,               \* the position in main or run_single_prompt
    entry,            \* the prompt in process
    clar_result, ans_result, final_prompt, code_result,
    eval_result, refine_result, re_eval_result,
    total_ambiguous, total_clear, amb, clear, glob,
    refine_attempts, refine_success,
    files,            \* the scratch files of the working directory
    calls,            \* the components invoked for the prompt in process, in order
    logged,           \* the records appended to the logs for the prompt in process
    raised,           \* the exception that ended the run, and the stage it left
    metrics,          \* the summary main computes
    result            \* what run_single_prompt returns

vars ==
    << surface, mode, answers, total_prompts, processed, pc, entry,
       clar_result, ans_result, final_prompt, code_result,
       eval_result, refine_result, re_eval_result,
       total_ambiguous, total_clear, amb, clear, glob,
       refine_attempts, refine_success, files, calls, logged, raised,
       metrics, result >>

\* the locals of one prompt's processing
locals ==
    << entry, clar_result, ans_result, final_prompt, code_result,
       eval_result, refine_result, re_eval_result >>

counters ==
    << total_ambiguous, total_clear, amb, clear, glob,
       refine_attempts, refine_success >>

config == << surface, mode, answers, total_prompts >>

\* values of locals not assigned yet
NoPrompt == Prompt(FALSE, FALSE, <<>>, FALSE, {"unset"})

NoClar == [original_prompt |-> NoPrompt, clarifications |-> <<>>, status |-> "unset"]

NoBundle == AnswerBundle(<<>>, <<>>, Augmented(NoPrompt, <<>>))

NoCode == Code("unset", "ok", {}, <<>>, {}, FALSE, <<>>, "none")

NoRepair == RepairOutcome(NoCode, "none")

NoRaise == [exc |-> "none", stage |-> "none"]

NoMetrics == [emitted |-> FALSE]

NoResult == [status |-> "none"]

Zeros == [s \in Statuses |-> 0]

LocalsUnset ==
    /\ clar_result = NoClar
    /\ ans_result = NoBundle
    /\ final_prompt = Augmented(NoPrompt, <<>>)
    /\ code_result = NoCode
    /\ eval_result = NoVerdict
    /\ refine_result = NoRepair
    /\ re_eval_result = NoVerdict

\* main after line 118 (agents built, prompts sampled, counters zero), or
\* run_single_prompt after line 323 (agents built)
Init ==
    /\ surface \in {"main", "single"}
    /\ mode \in (IF surface = "main" THEN MainModes ELSE SingleModes)
    /\ answers \in (IF surface = "main" THEN {NoneAnswers} ELSE SuppliedAnswers)
    /\ total_prompts \in (IF surface = "main" THEN 0..MaxPrompts ELSE {1})
    /\ processed = 0
    /\ pc = IF surface = "main" THEN "loop" ELSE "clarify"
    /\ entry \in (IF surface = "main" THEN {NoPrompt} ELSE Prompts)
    /\ LocalsUnset
    /\ total_ambiguous = 0 /\ total_clear = 0
    /\ amb = Zeros /\ clear = Zeros /\ glob = Zeros
    /\ refine_attempts = 0 /\ refine_success = 0
    /\ files = FreshFiles
    /\ calls = <<>>
    /\ logged = <<>>
    /\ raised = NoRaise
    /\ metrics = NoMetrics
    /\ result = NoResult

\* ------------------------------------------------------------------ the orchestrators
\* the strategy objects main (lines 76-79) and run_single_prompt (320-323) build
Clarifier(m, prompt, resp) ==
    IF m = "baseline" THEN ClarifyAgent_run(prompt) ELSE ClarifyAgentLLM_run(prompt, resp)

Generator(m, clarified_prompt, resp) ==
    IF m = "baseline" THEN CodeAgent_run(clarified_prompt)
    ELSE CodeAgentLLM_run(clarified_prompt, resp)

Critic(m, code, fs, resp) ==
    IF m = "baseline" THEN EvalAgent_run(code, fs)
    ELSE [raised |-> EvalAgentLLM_run(code, resp).raised,
          verdict |-> EvalAgentLLM_run(code, resp).value,
          files |-> fs]

Repairer(m, code, eval_feedback, resp) ==
    IF m = "baseline" THEN RefineAgent_run(code, eval_feedback)
    ELSE RefineAgentLLM_run(code, eval_feedback, resp)

\* a variant of NeedsRefine that also repairs code that passed
NeedsRefine_AnyStatus(status) ==
    status \in {"pass", "fail", "error", "unsupported", "invalid"}

\* main, line 172: the statuses that send a prompt to the Repairer
NeedsRefine(status) == status \in {"fail", "error", "unsupported", "invalid"}

\* run_single_prompt, line 359: the same test against capitalised tokens
SingleNeedsRefine(status) == status \in {"Fail", "Error", "Unsupported", "Invalid"}

\* run_single_prompt, line 369
SinglePassed(status) == status = "Pass"

\* a variant of AfterClarify that never asks the Answerer
AfterClarify_SkipAnswer(clarifications) == "generate"

\* main, line 137, and run_single_prompt, line 334: the Answerer is next only
\* when there are clarifications
AfterClarify(clarifications) ==
    IF clarifications # <<>> THEN "answer" ELSE "generate"

\* a variant of AfterReEvaluate that repairs again while the verdict is failing
AfterReEvaluate_Loop(status) ==
    IF status \in {"fail", "error", "unsupported", "invalid"} THEN "refine"
    ELSE "metrics"

\* main, line 191: whatever the second verdict, the prompt goes on to the
\* counters
AfterReEvaluate(status) == "metrics"

\* Logger.log: one record appended to a log file
Log(file, status) == Append(logged, [file |-> file, status |-> status])

\* an exception leaves main or run_single_prompt
Abort(stage, exc) ==
    /\ pc' = "aborted"
    /\ raised' = [exc |-> exc, stage |-> stage]

\* the scratch files stay within the lengths the model follows
FitsBound(fs) == \A f \in FileNames : Len(fs[f].data) <= MaxFileLen

\* main, line 120: the loop takes the next sampled entry
NextEntry ==
    /\ surface = "main" /\ pc = "loop" /\ processed < total_prompts
    /\ entry' \in Prompts
    /\ pc' = "clarify"
    /\ UNCHANGED << config, processed, clar_result, ans_result, final_prompt,
                    code_result, eval_result, refine_result, re_eval_result,
                    counters, files, calls, logged, raised, metrics, result >>

\* main, lines 126-134 and 147-148
MainClarify ==
    /\ surface = "main" /\ pc = "clarify"
    /\ calls' = Append(calls, "Clarifier")
    /\ \E resp \in ClarifyReplies :
         LET r == Clarifier(mode.clarify, entry, resp)
         IN  IF r.raised # "none"
               THEN /\ Abort("Clarifier", r.raised)
                    /\ UNCHANGED << clar_result, final_prompt, logged >>
               ELSE /\ clar_result' = r.value
                    /\ logged' = Log("clarify.jsonl", r.value.status)
                    /\ final_prompt' =
                         IF r.value.clarifications # <<>> THEN final_prompt
                         ELSE Augmented(r.value.original_prompt, <<>>)
                    /\ pc' = AfterClarify(r.value.clarifications)
                    /\ UNCHANGED raised
    /\ UNCHANGED << config, processed, entry, ans_result, code_result, eval_result,
                    refine_result, re_eval_result, counters, files, metrics, result >>

\* main, lines 137-146: AnswerAgent(mode, cli=True)
MainAnswer ==
    /\ surface = "main" /\ pc = "answer"
    /\ calls' = Append(calls, "Answerer")
    /\ \E typed \in [1..Len(clar_result.clarifications) -> TypedAnswers],
          responses \in [1..Len(clar_result.clarifications) -> AnswerReplies] :
         LET r == AnswerAgent_run(mode.answer, TRUE, clar_result.clarifications,
                                  clar_result.original_prompt, NoneAnswers,
                                  typed, responses)
         IN  /\ ans_result' = r
             /\ final_prompt' = r.augmented_prompt
    /\ logged' = Log("answer.jsonl", "")
    /\ pc' = "generate"
    /\ UNCHANGED << config, processed, entry, clar_result, code_result, eval_result,
                    refine_result, re_eval_result, counters, files, raised,
                    metrics, result >>

\* main, lines 151-158
MainGenerate ==
    /\ surface = "main" /\ pc = "generate"
    /\ calls' = Append(calls, "Generator")
    /\ \E resp \in CodeReplies :
         LET r == Generator(mode.code, final_prompt, resp)
         IN  IF r.raised # "none"
               THEN /\ Abort("Generator", r.raised)
                    /\ UNCHANGED << code_result, logged >>
               ELSE /\ code_result' = r.value
                    /\ logged' = Log("code.jsonl", "")
                    /\ pc' = "evaluate"
                    /\ UNCHANGED raised
    /\ UNCHANGED << config, processed, entry, clar_result, ans_result, final_prompt,
                    eval_result, refine_result, re_eval_result, counters, files,
                    metrics, result >>

\* main, lines 161-172
MainEvaluate ==
    /\ surface = "main" /\ pc = "evaluate"
    /\ calls' = Append(calls, "Critic")
    /\ \E resp \in EvalReplies :
         LET r == Critic(mode.eval, code_result, files, resp)
         IN  /\ FitsBound(r.files)
             /\ files' = r.files
             /\ IF r.raised # "none"
                  THEN /\ Abort("Critic", r.raised)
                       /\ UNCHANGED << eval_result, logged >>
                  ELSE /\ eval_result' = r.verdict
                       /\ logged' = Log("eval.jsonl", r.verdict.status)
                       /\ pc' = IF NeedsRefine(r.verdict.status) THEN "refine"
                                ELSE "metrics"
                       /\ UNCHANGED raised
    /\ UNCHANGED << config, processed, entry, clar_result, ans_result, final_prompt,
                    code_result, refine_result, re_eval_result, counters,
                    metrics, result >>

\* main, lines 173-176
MainRefine ==
    /\ refine_attempts' = refine_attempts + 1
    /\ calls' = Append(calls, "Repairer")
    /\ \E resp \in FixReplies :
         LET r == Repairer(mode.refine, code_result, eval_result, resp)
         IN  IF r.raised # "none"
               THEN /\ Abort("Repairer", r.raised)
                    /\ UNCHANGED refine_result
               ELSE /\ refine_result' = r.value
                    /\ pc' = "reevaluate"
                    /\ UNCHANGED raised
    /\ UNCHANGED << config, processed, entry, clar_result, ans_result, final_prompt,
                    code_result, eval_result, re_eval_result,
                    total_ambiguous, total_clear, amb, clear, glob, refine_success,
                    files, logged, metrics, result >>

\* main, lines 178-191
MainReEvaluate ==
    /\ calls' = Append(calls, "Critic")
    /\ \E resp \in EvalReplies :
         LET r == Critic(mode.eval, refine_result.refined_code, files, resp)
         IN  /\ FitsBound(r.files)
             /\ files' = r.files
             /\ IF r.raised # "none"
                  THEN /\ Abort("Critic", r.raised)
                       /\ UNCHANGED << eval_result, re_eval_result, refine_success,
                                       logged >>
                  ELSE /\ re_eval_result' = r.verdict
                       /\ refine_success' =
                            IF r.verdict.status = "pass" THEN refine_success + 1
                            ELSE refine_success
                       /\ logged' = Log("refine.jsonl", r.verdict.status)
                       /\ eval_result' = r.verdict
                       /\ pc' = AfterReEvaluate(r.verdict.status)
                       /\ UNCHANGED raised
    /\ UNCHANGED << config, processed, entry, clar_result, ans_result, final_prompt,
                    code_result, refine_result,
                    total_ambiguous, total_clear, amb, clear, glob, refine_attempts,
                    metrics, result >>

\* a variant of Bump that counts passing prompts only
Bump_PassOnly(counter, status) ==
    IF status = "pass" THEN [counter EXCEPT ![status] = @ + 1] ELSE counter

\* a variant of Bump that counts a prompt twice
Bump_Twice(counter, status) ==
    IF status \in DOMAIN counter THEN [counter EXCEPT ![status] = @ + 2] ELSE counter

\* the if/elif chain over eval_result["status"] of main, lines 196-229
Bump(counter, status) ==
    IF status \in DOMAIN counter THEN [counter EXCEPT ![status] = @ + 1] ELSE counter

\* main, lines 193-229: the prompt is folded into the counters and the loop
\* goes on; the locals of the iteration are dead from here
MainFold ==
    /\ surface = "main" /\ pc = "metrics"
    /\ IF clar_result.status = "ambiguous"
         THEN /\ total_ambiguous' = total_ambiguous + 1
              /\ amb' = Bump(amb, eval_result.status)
              /\ UNCHANGED << total_clear, clear >>
         ELSE /\ total_clear' = total_clear + 1
              /\ clear' = Bump(clear, eval_result.status)
              /\ UNCHANGED << total_ambiguous, amb >>
    /\ glob' = Bump(glob, eval_result.status)
    /\ processed' = processed + 1
    /\ pc' = "loop"
    /\ entry' = NoPrompt
    /\ clar_result' = NoClar
    /\ ans_result' = NoBundle
    /\ final_prompt' = Augmented(NoPrompt, <<>>)
    /\ code_result' = NoCode
    /\ eval_result' = NoVerdict
    /\ refine_result' = NoRepair
    /\ re_eval_result' = NoVerdict
    /\ calls' = <<>>
    /\ logged' = <<>>
    /\ UNCHANGED << config, refine_attempts, refine_success, files, raised,
                    metrics, result >>

\* (a / b) * 100, rounded down to a whole percentage
Pct(a, b) == (a * 100) \div b

\* main, lines 231-316: the summary, once the loop is over.  Lines 237, 250
\* and 303 divide by total_prompts without a test
MainSummary ==
    /\ surface = "main" /\ pc = "loop" /\ processed = total_prompts
    /\ IF total_prompts = 0
         THEN /\ Abort("Summary", "ZeroDivisionError")
              /\ UNCHANGED metrics
         ELSE /\ metrics' =
                   [emitted |-> TRUE,
                    CRR |-> Pct(total_ambiguous, total_prompts),
                    ARSR |-> IF total_ambiguous > 0
                               THEN Pct(amb["pass"], total_ambiguous) ELSE 0,
                    CSR |-> IF total_clear > 0
                              THEN Pct(clear["pass"], total_clear) ELSE 0,
                    RFR |-> IF refine_attempts > 0
                              THEN Pct(refine_success, refine_attempts) ELSE 0,
                    USR |-> Pct(glob["unsupported"], total_prompts),
                    Coverage |-> Pct(glob["pass"], total_prompts)]
              /\ pc' = "done"
              /\ UNCHANGED raised
    /\ UNCHANGED << config, processed, locals, counters, files, calls, logged, result >>

\* run_single_prompt, lines 325-332
SingleClarify ==
    /\ surface = "single" /\ pc = "clarify"
    /\ calls' = Append(calls, "Clarifier")
    /\ \E resp \in ClarifyReplies :
         LET r == Clarifier(mode.clarify, entry, resp)
         IN  IF r.raised # "none"
               THEN /\ Abort("Clarifier", r.raised)
                    /\ UNCHANGED << clar_result, final_prompt >>
               ELSE /\ clar_result' = r.value
                    /\ final_prompt' = Augmented(r.value.original_prompt, <<>>)
                    /\ pc' = AfterClarify(r.value.clarifications)
                    /\ UNCHANGED raised
    /\ UNCHANGED << config, processed, entry, ans_result, code_result, eval_result,
                    refine_result, re_eval_result, counters, files, logged,
                    metrics, result >>

\* run_single_prompt, lines 335-342: the pause state
SingleAwait ==
    /\ surface = "single" /\ pc = "answer"
    /\ mode.answer = "human" /\ NotAnswers(answers)
    /\ result' = [status |-> "awaiting_answers",
                  clarifications |-> clar_result.clarifications,
                  answers |-> <<>>,
                  output |-> NoCode,
                  metrics |-> [empty |-> TRUE]]
    /\ pc' = "returned"
    /\ UNCHANGED << config, processed, locals, counters, files, calls, logged,
                    raised, metrics >>

\* run_single_prompt, lines 343-347: AnswerAgent(mode=answer_mode), cli off
SingleAnswer ==
    /\ surface = "single" /\ pc = "answer"
    /\ ~(mode.answer = "human" /\ NotAnswers(answers))
    /\ calls' = Append(calls, "Answerer")
    /\ \E responses \in [1..Len(clar_result.clarifications) -> AnswerReplies] :
         LET r == AnswerAgent_run(mode.answer, FALSE, clar_result.clarifications,
                                  clar_result.original_prompt, answers,
                                  <<>>, responses)
         IN  /\ ans_result' = r
             /\ final_prompt' = r.augmented_prompt
    /\ pc' = "generate"
    /\ UNCHANGED << config, processed, entry, clar_result, code_result, eval_result,
                    refine_result, re_eval_result, counters, files, logged, raised,
                    metrics, result >>

\* run_single_prompt, lines 350-351
SingleGenerate ==
    /\ surface = "single" /\ pc = "generate"
    /\ calls' = Append(calls, "Generator")
    /\ \E resp \in CodeReplies :
         LET r == Generator(mode.code, final_prompt, resp)
         IN  IF r.raised # "none"
               THEN /\ Abort("Generator", r.raised)
                    /\ UNCHANGED code_result
               ELSE /\ code_result' = r.value
                    /\ pc' = "evaluate"
                    /\ UNCHANGED raised
    /\ UNCHANGED << config, processed, entry, clar_result, ans_result, final_prompt,
                    eval_result, refine_result, re_eval_result, counters, files,
                    logged, metrics, result >>

\* run_single_prompt, lines 354-359
SingleEvaluate ==
    /\ surface = "single" /\ pc = "evaluate"
    /\ calls' = Append(calls, "Critic")
    /\ \E resp \in EvalReplies :
         LET r == Critic(mode.eval, code_result, files, resp)
         IN  /\ FitsBound(r.files)
             /\ files' = r.files
             /\ IF r.raised # "none"
                  THEN /\ Abort("Critic", r.raised)
                       /\ UNCHANGED eval_result
                  ELSE /\ eval_result' = r.verdict
                       /\ pc' = IF SingleNeedsRefine(r.verdict.status) THEN "refine"
                                ELSE "return"
                       /\ UNCHANGED raised
    /\ UNCHANGED << config, processed, entry, clar_result, ans_result, final_prompt,
                    code_result, refine_result, re_eval_result, counters, logged,
                    metrics, result >>

\* run_single_prompt, line 360
SingleRefine ==
    /\ calls' = Append(calls, "Repairer")
    /\ \E resp \in FixReplies :
         LET r == Repairer(mode.refine, code_result, eval_result, resp)
         IN  IF r.raised # "none"
               THEN /\ Abort("Repairer", r.raised)
                    /\ UNCHANGED refine_result
               ELSE /\ refine_result' = r.value
                    /\ pc' = "reevaluate"
                    /\ UNCHANGED raised
    /\ UNCHANGED << config, processed, entry, clar_result, ans_result, final_prompt,
                    code_result, eval_result, re_eval_result, counters, files,
                    logged, metrics, result >>

\* run_single_prompt, lines 361-373: eval_result is NOT overwritten
SingleReEvaluate ==
    /\ calls' = Append(calls, "Critic")
    /\ \E resp \in EvalReplies :
         LET r == Critic(mode.eval, refine_result.refined_code, files, resp)
         IN  /\ FitsBound(r.files)
             /\ files' = r.files
             /\ IF r.raised # "none"
                  THEN /\ Abort("Critic", r.raised)
                       /\ UNCHANGED << re_eval_result, code_result >>
                  ELSE /\ re_eval_result' = r.verdict
                       /\ code_result' = refine_result.refined_code
                       /\ pc' = "return"
                       /\ UNCHANGED raised
    /\ UNCHANGED << config, processed, entry, clar_result, ans_result, final_prompt,
                    eval_result, refine_result, counters, logged, metrics, result >>

\* the repair step of either surface
Refine ==
    /\ pc = "refine"
    /\ IF surface = "main" THEN MainRefine ELSE SingleRefine

\* the re-evaluation step of either surface
ReEvaluate ==
    /\ pc = "reevaluate"
    /\ IF surface = "main" THEN MainReEvaluate ELSE SingleReEvaluate

\* run_single_prompt, lines 375-391
SingleReturn ==
    /\ surface = "single" /\ pc = "return"
    /\ result' =
         [status |-> eval_result.status,
          clarifications |-> clar_result.clarifications,
          answers |-> ans_result.answers,
          output |-> code_result,
          metrics |->
            [empty |-> FALSE,
             CRR |-> IF clar_result.status = "ambiguous" THEN 1 ELSE 0,
             CSR |-> IF clar_result.status = "clear" /\ eval_result.status = "pass"
                       THEN 1 ELSE 0,
             ARSR |-> IF clar_result.status = "ambiguous" /\ eval_result.status = "pass"
                        THEN 1 ELSE 0,
             RFR |-> IF refine_result # NoRepair /\ SinglePassed(re_eval_result.status)
                       THEN 1 ELSE 0,
             USR |-> IF eval_result.status = "unsupported" THEN 1 ELSE 0],
          refine |->
            IF refine_result = NoRepair THEN [none |-> TRUE]
            ELSE [none |-> FALSE,
                  action |-> refine_result.action,
                  refined_code |-> refine_result.refined_code,
                  re_eval_status |-> re_eval_result.status]]
    /\ pc' = "returned"
    /\ UNCHANGED << config, processed, locals, counters, files, calls, logged,
                    raised, metrics >>

Next ==
    \/ NextEntry
    \/ MainClarify
    \/ MainAnswer
    \/ MainGenerate
    \/ MainEvaluate
    \/ Refine
    \/ ReEvaluate
    \/ MainFold
    \/ MainSummary
    \/ SingleClarify
    \/ SingleAwait
    \/ SingleAnswer
    \/ SingleGenerate
    \/ SingleEvaluate
    \/ SingleReturn

Spec == Init /\ [][Next]_vars

\* ------------------------------------------------------------------ claims
\* the statuses of a verdict that is not a pass
FailingStatuses == {"fail", "error", "unsupported", "invalid"}

\* how often a component was invoked for the prompt in process
Count(name) == Len(SelectSeq(calls, LAMBDA c : c = name))

\* how many records a log file got for the prompt in process
Records(file) == Len(SelectSeq(logged, LAMBDA r : r.file = file))

\* the status of the Critic's first verdict for the prompt in process: main
\* logs it to eval.jsonl, run_single_prompt keeps it in eval_result
FirstStatus ==
    IF surface = "single" THEN eval_result.status
    ELSE IF Records("eval.jsonl") = 0 THEN "none"
    ELSE SelectSeq(logged, LAMBDA r : r.file = "eval.jsonl")[1].status

\* the prompt has reached its terminal state: main is about to fold it into
\* the counters, run_single_prompt has returned a verdict-bearing result
Terminal ==
    \/ surface = "main" /\ pc = "metrics"
    \/ surface = "single" /\ pc = "returned" /\ result.status # "awaiting_answers"

\* the status emitted at the terminal state
EmittedStatus == IF surface = "main" THEN eval_result.status ELSE result.status

\* the last n components invoked
LastCalls(n) ==
    IF Len(calls) < n THEN <<>> ELSE SubSeq(calls, Len(calls) - n + 1, Len(calls))

\* C1: on both surfaces, a prompt whose first verdict is fail, error,
\* unsupported or invalid reaches its terminal state only after the Repairer
\* was invoked and the Critic then re-evaluated the refined code.
C1_RepairThenReEvaluate ==
    (Terminal /\ FirstStatus \in FailingStatuses)
        => LastCalls(3) = <<"Critic", "Repairer", "Critic">>

\* C2: on both surfaces, for a prompt whose first verdict is not pass, the
\* status emitted at the terminal state is the status of the re-evaluation of
\* the repaired code.
C2_FinalIsReEvaluation ==
    (Terminal /\ FirstStatus \in FailingStatuses)
        => /\ re_eval_result # NoVerdict
           /\ EmittedStatus = re_eval_result.status

\* C3: the Repairer is never invoked for a prompt whose first verdict is pass:
\* the repair step is entered, and the Repairer has been invoked, only when
\* the first verdict is fail, error, unsupported or invalid.
C3_RepairOnlyAfterFailure ==
    (pc = "refine" \/ Count("Repairer") > 0) => FirstStatus \in FailingStatuses

\* C3 witness: main has finished a prompt whose first verdict is pass, and the
\* Critic was the last component invoked.
C3_Witness ==
    /\ surface = "main" /\ pc = "metrics"
    /\ FirstStatus = "pass"
    /\ LastCalls(2) = <<"Generator", "Critic">>

\* C4: per prompt the Repairer is invoked at most once, at most one refine
\* record is logged and the Critic is invoked at most twice, also when the
\* re-evaluation still fails.
C4_AtMostOneRepair ==
    /\ Count("Repairer") <= 1
    /\ Records("refine.jsonl") <= 1
    /\ Count("Critic") <= 2

\* C4 witness: a prompt of main is at its terminal state after one repair whose
\* re-evaluation is still not a pass.
C4_Witness ==
    /\ surface = "main" /\ pc = "metrics"
    /\ Count("Repairer") = 1 /\ Records("refine.jsonl") = 1 /\ Count("Critic") = 2
    /\ re_eval_result.status \in FailingStatuses

\* s is an initial segment of t
IsPrefix(s, t) == Len(s) <= Len(t) /\ SubSeq(t, 1, Len(s)) = s

\* the orders of invocation of section 4.6, with and without the Answerer
StageOrders ==
    { <<"Clarifier", "Generator", "Critic", "Repairer", "Critic">>,
      <<"Clarifier", "Answerer", "Generator", "Critic", "Repairer", "Critic">> }

\* C5: per prompt the components are invoked in the order Clarifier, Answerer
\* (only when there are clarifications), Generator, Critic, then optionally
\* Repairer and Critic; none is invoked again later except the Critic once.
C5_LinearOrder ==
    /\ \E order \in StageOrders : IsPrefix(calls, order)
    /\ Count("Answerer") > 0 => clar_result.clarifications # <<>>
    /\ (Count("Generator") > 0 /\ clar_result.clarifications # <<>>)
           => Count("Answerer") = 1

\* C5 witness: a prompt went through all six invocations.
C5_Witness ==
    calls = <<"Clarifier", "Answerer", "Generator", "Critic", "Repairer", "Critic">>

\* C6: run_single_prompt in human answer mode, the Clarifier having returned
\* clarifications and no answers being supplied (None or an empty list),
\* returns the pause state: status awaiting_answers, the Clarifier's questions
\* in order, no answers, no output; nothing after the Clarifier is invoked.
C6_AwaitingAnswers ==
    (/\ surface = "single" /\ mode.answer = "human"
     /\ answers.none \/ answers.list = <<>>
     /\ clar_result.clarifications # <<>>)
        => /\ calls = <<"Clarifier">>
           /\ pc \in {"answer", "returned"}
           /\ pc = "returned" =>
                /\ result.status = "awaiting_answers"
                /\ result.clarifications =
                     (IF entry.lang THEN <<LangQuestion>>
                      ELSE IF mode.clarify = "baseline" THEN detect_ambiguities(entry)
                      ELSE clar_result.clarifications)
                /\ result.answers = <<>>
                /\ result.output = NoCode

\* C6 witness: the pause state was returned for an empty list of answers and
\* two questions of the rule table.
C6_Witness ==
    /\ surface = "single" /\ pc = "returned"
    /\ mode.answer = "human" /\ answers = Answers(<<>>)
    /\ result.status = "awaiting_answers"
    /\ Len(result.clarifications) = 2

\* C7: every batch run finishes its loop and emits the metrics record,
\* whatever the verdicts and the number of sampled prompts: no run of main
\* ends with an exception.
C7_BatchCompletes ==
    surface = "main" => pc # "aborted"

\* C8: a failure of the text-completion service inside an LLM-backed stage is
\* recovered inside the stage: it never leaves it to end the run.
C8_ServiceFailureRecovered ==
    ~(pc = "aborted" /\ raised.exc = "ServiceError")

\* C9: the rule-based Critic returns a verdict for every code string: nothing
\* raised while the code is loaded or an oracle callable is invoked leaves the
\* Critic.
C9_CriticAlwaysReturns ==
    mode.eval = "baseline" => ~(pc = "aborted" /\ raised.stage = "Critic")

\* the code strings a Critic may be handed
AllCodes ==
    GenCodes \cup FixCodes
      \cup {LangStub, NoTemplate}
      \cup {Template(SelectTemplate(p.words)) : p \in Prompts}
      \cup {Defines("read_file", <<"read">>), Defines("append_to_file", <<"append">>),
            Defines("append_to_file", <<"noop">>)}

\* C10: whatever evaluations came before, the rule-based Critic gives a code
\* string the verdict it gives it on fresh scratch files.
C10_VerdictIndependentOfScratch ==
    \A c \in AllCodes :
        /\ EvalAgent_run(c, files).verdict = EvalAgent_run(c, FreshFiles).verdict
        /\ EvalAgent_run(c, files).raised = EvalAgent_run(c, FreshFiles).raised

\* the verdict both Critics give the language-stub marker
StubVerdict == Verdict("unsupported", "None", "Non-Python language requested", <<>>)

\* C11: for a prompt on which the Clarifier's non-supported-language check
\* fires, the Clarifier returns exactly the language-support question, the
\* Generator that then receives the augmented prompt returns the
\* language-stub marker, and either Critic classifies that marker as
\* unsupported without executing it (the scratch files stay as they are);
\* for every combination of rule-based and LLM-backed Clarifier and Generator.
C11_LanguageStubPath ==
    (entry.lang /\ clar_result # NoClar) =>
        /\ clar_result.clarifications = <<LangQuestion>>
        /\ pc = "evaluate" => code_result = LangStub
        /\ \A m \in ModeNames, resp \in EvalReplies :
               Critic(m, LangStub, files, resp) = Returned(StubVerdict, files)

\* the verdict of the no-template short-circuit
InvalidVerdict == Verdict("invalid", "None", "No valid code generated", <<>>)

\* C12: the rule-based Critic strips markdown fences before it looks for the
\* markers: code whose fence-stripped text is the language-stub marker gets
\* unsupported, code whose fence-stripped text is the no-template marker gets
\* invalid with no function name, and neither is executed.
C12_FencesStrippedFirst ==
    /\ (mode.eval = "baseline" /\ pc = "evaluate") =>
          /\ clean_code(code_result).marker = "lang_stub" =>
                EvalAgent_run(code_result, files) = Returned(StubVerdict, files)
          /\ clean_code(code_result).marker = "no_template" =>
                EvalAgent_run(code_result, files) = Returned(InvalidVerdict, files)
    /\ (mode.eval = "baseline" /\ FirstStatus # "none") =>
          /\ clean_code(code_result).marker = "lang_stub" => FirstStatus = "unsupported"
          /\ clean_code(code_result).marker = "no_template" => FirstStatus = "invalid"

\* the index of the first oracle pair, among the first n, on which a callable
\* with these call outcomes does not return the expected value (0: none)
RECURSIVE FirstBad(_, _, _)
FirstBad(call, i, n) ==
    IF i > n THEN 0
    ELSE IF call[i] # "ok" THEN i
    ELSE FirstBad(call, i + 1, n)

\* the code under evaluation defines a callable the rule-based Critic tests
\* against a non-file oracle
TestsPairs(code) ==
    /\ ~StartsWith(code, "lang_stub") /\ ~StartsWith(code, "no_template")
    /\ code.load = "ok"
    /\ FirstCandidate(code.defs, 1) \notin FileOracles \cup {"none"}

\* C13: a callable matching a non-file oracle is invoked on the oracle's pairs
\* in table order; the verdict is fail at the first pair whose result differs
\* from the expected value, with that pair's input, expected and actual value
\* in details, whatever a later pair would have done (none is invoked); it is
\* pass with that function name exactly when every pair matches.
C13_FirstMismatchFails ==
    (mode.eval = "baseline" /\ pc = "evaluate" /\ TestsPairs(code_result)) =>
        LET f == FirstCandidate(code_result.defs, 1)
            n == NumPairs(f)
            call == code_result.call
            k == FirstBad(call, 1, n)
            r == EvalAgent_run(code_result, files)
        IN  /\ k = 0 =>
                  r = Returned(Verdict("pass", f, "All test cases passed", <<>>), files)
            /\ (r.raised = "none" /\ r.verdict.status = "pass") => k = 0
            /\ (k > 0 /\ call[k] \in {"wrong", "None"}) =>
                  /\ r = Returned(Mismatch(f, k, call[k]), files)
                  /\ \A later \in [1..n -> PairOutcomes] :
                         (\A i \in 1..k : later[i] = call[i]) =>
                             TestPairs(f, later, 1, files) = r

\* C13 witness: the fibonacci template matched pair 1 and failed at pair 2.
C13_Witness ==
    /\ pc = "refine" /\ mode.eval = "baseline"
    /\ code_result = Template("fibonacci")
    /\ eval_result = Mismatch("fibonacci", 2, "wrong")

\* C14: whenever the Answerer returns a non-empty answers sequence with an
\* augmented prompt, there are as many answers as clarification questions and
\* qa_pairs pairs the i-th question with the i-th answer, in human mode for
\* any pre-supplied answer list and in auto mode.
C14_OneAnswerPerQuestion ==
    (Count("Answerer") > 0 /\ ans_result.answers # <<>>) =>
        /\ Len(ans_result.answers) = Len(clar_result.clarifications)
        /\ Len(ans_result.qa_pairs) = Len(clar_result.clarifications)
        /\ \A i \in 1..Len(clar_result.clarifications) :
               ans_result.qa_pairs[i] =
                   [question |-> clar_result.clarifications[i],
                    answer |-> ans_result.answers[i]]

\* C15: whenever the Answerer produces answers, the augmented prompt is the
\* original prompt, unchanged, followed by exactly one line "Answer: <a>" per
\* clarification question, the i-th line carrying the answer to the i-th
\* question; for no questions the augmented prompt is the original prompt and
\* answers and qa_pairs are empty.
C15_AugmentedPrompt ==
    /\ (Count("Answerer") > 0 /\ ans_result.answers # <<>>) =>
          /\ ans_result.augmented_prompt.base = clar_result.original_prompt
          /\ Len(ans_result.augmented_prompt.appended) = Len(clar_result.clarifications)
          /\ \A i \in 1..Len(clar_result.clarifications) :
                 ans_result.augmented_prompt.appended[i] =
                     AnswerLine(ans_result.qa_pairs[i].answer)
    /\ \A m \in AnswerModes, cli \in BOOLEAN :
          LET r == AnswerAgent_run(m, cli, <<>>, entry, answers, <<>>, <<>>)
          IN  /\ r.augmented_prompt = [base |-> entry, appended |-> <<>>]
              /\ r.answers = <<>> /\ r.qa_pairs = <<>>

\* C16: the auto Answerer queries the completion service once per question,
\* in question order; when the request for question i fails, answer i is
\* "N/A" and the later questions are still queried, so the result holds
\* exactly one answer per question whichever requests fail, and no failure
\* leaves the Answerer.
C16_AutoAnswersSentinel ==
    /\ raised.stage # "Answerer"
    /\ (mode.answer = "auto" /\ Count("Answerer") > 0) =>
          Len(ans_result.answers) = Len(clar_result.clarifications)
    /\ (mode.answer = "auto" /\ pc = "answer") =>
          \A responses \in [1..Len(clar_result.clarifications) -> AnswerReplies] :
              LET r == AnswerAgent_run("auto", surface = "main",
                                       clar_result.clarifications,
                                       clar_result.original_prompt, answers,
                                       <<>>, responses)
              IN  /\ Len(r.answers) = Len(clar_result.clarifications)
                  /\ \A i \in 1..Len(clar_result.clarifications) :
                         r.answers[i] = IF responses[i] = "raise" THEN "N/A"
                                        ELSE responses[i]

\* C16 witness: the request for the first of two questions failed and the
\* second question was still answered by the service.
C16_Witness ==
    /\ mode.answer = "auto" /\ pc = "generate"
    /\ ans_result.answers = <<"N/A", "yes">>
    /\ Len(clar_result.clarifications) = 2

\* C17: for every ClarificationResult either Clarifier strategy returns,
\* status is ambiguous if and only if the clarifications are non-empty, and
\* clear otherwise; original_prompt is the input prompt.
C17_StatusDerived ==
    clar_result # NoClar =>
        /\ clar_result.status \in {"ambiguous", "clear"}
        /\ clar_result.status = "ambiguous" <=> clar_result.clarifications # <<>>
        /\ clar_result.original_prompt = entry

\* C17 witness: the LLM-backed Clarifier asked one question of its own.
C17_Witness ==
    /\ mode.clarify = "llm" /\ pc = "answer"
    /\ clar_result.status = "ambiguous"
    /\ clar_result.clarifications = <<"Which input type do you mean?">>

\* C18: for every batch, also one with zero prompts, zero ambiguous prompts,
\* zero clear prompts or zero repair attempts, each of the six metrics whose
\* denominator is zero is reported as 0 and no error is raised.
C18_ZeroDenominatorsYieldZero ==
    /\ raised.exc # "ZeroDivisionError"
    /\ (surface = "main" /\ pc = "done") =>
          /\ metrics.emitted
          /\ total_prompts = 0 =>
                metrics.CRR = 0 /\ metrics.USR = 0 /\ metrics.Coverage = 0
          /\ total_ambiguous = 0 => metrics.ARSR = 0
          /\ total_clear = 0 => metrics.CSR = 0
          /\ refine_attempts = 0 => metrics.RFR = 0

\* the entries the loop of main has taken so far: those folded into the
\* counters and the one in process
Started == processed + (IF entry # NoPrompt THEN 1 ELSE 0)

RepairedGotNone ==
    /\ pc = "reevaluate" /\ mode.refine = "baseline"
    /\ eval_result.status = "fail" /\ GotNone(eval_result.details)

\* the observations of the text that no line rewrite of rule 1 touches
SameOtherLines(a, b) ==
    /\ a.marker = b.marker /\ a.load = b.load /\ a.defs = b.defs
    /\ a.kws = b.kws /\ a.defline = b.defline /\ a.fenced = b.fenced

\* C20 as stated: given a fail verdict whose details say "got none", the
\* rule-based Repairer rewrites EVERY line consisting of a lone constant
\* expression into an explicit return of that constant, and leaves every
\* other line unchanged.
C20_EveryLoneConstantReturned ==
    RepairedGotNone =>
        /\ ~refine_result.refined_code.bare1
        /\ ~refine_result.refined_code.bareOther
        /\ SameOtherLines(refine_result.refined_code, code_result)

\* C20 as amended: given a fail verdict whose details say "got none", the
\* rule-based Repairer rewrites every line consisting of the lone constant 1
\* into "return 1" (the callable then behaves as the text so rewritten), and
\* leaves every other line unchanged, lines consisting of another lone
\* constant included.
C20_LoneOneReturned ==
    RepairedGotNone =>
        /\ refine_result.action = "Inserted missing return"
        /\ ~refine_result.refined_code.bare1
        /\ refine_result.refined_code.call = code_result.fixed
        /\ refine_result.refined_code.bareOther = code_result.bareOther
        /\ SameOtherLines(refine_result.refined_code, code_result)

\* C20 witness: code with a lone "1" line was repaired.
C20_Witness ==
    /\ RepairedGotNone
    /\ code_result.bare1
    /\ refine_result.refined_code.call = <<"ok", "ok">>

\* the verdicts the rule-based Repairer may be handed
Feedbacks ==
    { Verdict(st, "None", msg, got) :
        st \in Statuses,
        msg \in {"Input: expected, got", "Execution failed: invalid syntax",
                 "Runtime error", "Function not in supported list"},
        got \in {<<>>, <<"None">>, <<"wrong">>} }

\* a verdict for which the claim says the code comes back as it was
NoRepairCase(fb) ==
    \/ fb.status \in {"unsupported", "invalid", "pass"}
    \/ fb.status = "fail"
         /\ ~(fb.details.msg = "Input: expected, got" /\ fb.details.got = <<"None">>)
    \/ fb.status = "error" /\ fb.details.msg # "Execution failed: invalid syntax"

\* C21: the rule-based Repairer returns the input code as refined_code
\* whenever the verdict is unsupported, invalid or pass, fail without a
\* missing-return detail, or error without an invalid-syntax detail; for
\* unsupported the action says that no fix is available.
C21_RepairerFrame ==
    /\ (pc = "refine" /\ mode.refine = "baseline") =>
          \A fb \in Feedbacks :
              NoRepairCase(fb) =>
                  /\ RefineAgent_run(code_result, fb).raised = "none"
                  /\ RefineAgent_run(code_result, fb).value.refined_code = code_result
                  /\ fb.status = "unsupported" =>
                        RefineAgent_run(code_result, fb).value.action =
                            "Unsupported function - no fix"
    /\ (pc = "reevaluate" /\ mode.refine = "baseline" /\ NoRepairCase(eval_result)) =>
          /\ refine_result.refined_code = code_result
          /\ eval_result.status = "unsupported" =>
                refine_result.action = "Unsupported function - no fix"

\* C21 witness: code failed with a wrong value, not a missing one, and the
\* rule-based Repairer gave it back as it was.
C21_Witness ==
    /\ pc = "reevaluate" /\ mode.refine = "baseline"
    /\ eval_result.status = "fail" /\ NoRepairCase(eval_result)
    /\ refine_result = RepairOutcome(code_result, "No simple fix available")

\* the callable the rule-based Critic selects in the code recurses without end
\* when it is invoked: at its first pair, or after pairs that matched
Recurses(code) ==
    /\ ~StartsWith(code, "lang_stub") /\ ~StartsWith(code, "no_template")
    /\ code.load = "ok"
    /\ FirstCandidate(code.defs, 1) # "none"
    /\ \E k \in 1..Len(code.call) :
          /\ code.call[k] = "RecursionError"
          /\ \A i \in 1..(k - 1) : code.call[i] = "ok"

\* C22: for every oracle of the table, the file-I/O oracles save_results,
\* read_file and append_to_file included, unbounded recursion raised while the
\* matched callable is invoked yields status fail with the recursion reason,
\* not error.
C22_RecursionIsFail ==
    (mode.eval = "baseline" /\ pc = "evaluate" /\ Recurses(code_result)) =>
        /\ EvalAgent_run(code_result, files).raised = "none"
        /\ EvalAgent_run(code_result, files).verdict =
               Verdict("fail", FirstCandidate(code_result.defs, 1),
                       "Recursion error", <<>>)

OnFallbackPath(code) ==
    /\ ~StartsWith(code, "lang_stub") /\ ~StartsWith(code, "no_template")
    /\ (code.load # "ok" \/ \A i \in 1..Len(OracleNames) : OracleNames[i] \notin code.defs)

\* C23: when the load of the code raises, or no oracle-named callable is
\* found, the verdict is the one of the ordered keyword ladder (regex, then
\* networking, then database, then system give pass; else unsupported), and
\* its status is never fail, error or invalid.
C23_FallbackDecides ==
    (mode.eval = "baseline" /\ pc = "evaluate" /\ OnFallbackPath(code_result)) =>
        LET r == EvalAgent_run(code_result, files)
            k == code_result.kws
        IN  /\ r.raised = "none"
            /\ r.verdict.status \notin {"fail", "error", "invalid"}
            /\ r.verdict.status = "pass" <=> k \cap {"regex", "network", "db", "system"} # {}
            /\ r.verdict.status = "unsupported" <=> k \cap {"regex", "network", "db", "system"} = {}
            /\ "regex" \in k => r.verdict.function = "regex"
            /\ ("network" \in k /\ "regex" \notin k) => r.verdict.function = "networking"
            /\ r.files = files

\* the tests of CodeAgent.run that ask for two substrings
MultiKeywordRules == {KeywordRules[i] : i \in {j \in 1..Len(KeywordRules) : Cardinality(KeywordRules[j].all) = 2}}

\* the tests of CodeAgent.run that ask for one substring, its loop over the
\* template keys included
SingleKeywordRules ==
    {AllRules[i] : i \in {j \in 1..Len(AllRules) : Cardinality(AllRules[j].all) = 1}}

Satisfied(rules, words) == {r \in rules : r.all \subseteq words}

\* C25: for every prompt without a language marker that satisfies both a
\* multi-keyword rule and a single-keyword rule, the template Generator
\* returns the template of the multi-keyword rule.
C25_MultiKeywordFirst ==
    (/\ mode.code = "baseline" /\ pc = "evaluate" /\ ~entry.lang
     /\ Satisfied(MultiKeywordRules, entry.words) # {}
     /\ Satisfied(SingleKeywordRules, entry.words) # {})
        => code_result \in {Template(r.key) : r \in Satisfied(MultiKeywordRules, entry.words)}

\* the triggers of a prompt whose own suppression condition does not hold
Unsuppressed(prompt) == SelectSeq(prompt.triggers, LAMBDA t : ~t.own)

\* C26: in the rule-based Clarifier, when the language check does not fire,
\* the questions are those of the present triggers whose own suppression
\* condition does not hold, each once, in rule-table order.
C26_PerTriggerSuppression ==
    (/\ mode.clarify = "baseline" /\ ~entry.lang
     /\ clar_result.original_prompt = entry /\ clar_result.status # "unset")
        => /\ Len(clar_result.clarifications) = Len(Unsuppressed(entry))
           /\ \A i \in 1..Len(Unsuppressed(entry)) :
                 clar_result.clarifications[i] = Unsuppressed(entry)[i].question

\* the sum of the five status counters of a partition
Total(counter) ==
    counter["pass"] + counter["fail"] + counter["unsupported"]
      + counter["error"] + counter["invalid"]

C28_ColonRuleReached ==
    (/\ mode.eval = "baseline" /\ mode.refine = "baseline"
     /\ pc = "reevaluate" /\ code_result.defline = "missing")
        => /\ refine_result.action = "Added missing colon in function definition"
           /\ refine_result.refined_code = AddColon(code_result)
           /\ refine_result.refined_code.load = "ok"

\* the place of an oracle name in the table
Position(name) == CHOOSE i \in 1..Len(OracleNames) : OracleNames[i] = name

\* the oracle names the code binds, when it loads and is no marker text
Bound(code) ==
    IF StartsWith(code, "lang_stub") \/ StartsWith(code, "no_template") \/ code.load # "ok"
      THEN {}
      ELSE {n \in code.defs : \E i \in 1..Len(OracleNames) : OracleNames[i] = n}

\* C29: a Critic evaluation tests one callable, the first name in oracle-table
\* order that the code binds: the verdict's function field is that name, and
\* the other oracle names the code binds do not change the verdict or the
\* scratch files.
C29_FirstCallableOnly ==
    (mode.eval = "baseline" /\ pc = "evaluate" /\ Bound(code_result) # {}) =>
        LET first == CHOOSE n \in Bound(code_result) :
                         \A m \in Bound(code_result) : Position(n) <= Position(m)
            r == EvalAgent_run(code_result, files)
        IN  /\ r.raised = "none" => r.verdict.function = first
            /\ r = EvalAgent_run([code_result EXCEPT !.defs = {first}], files)

\* C29 witness: the lcm template, which defines gcd and lcm, was judged: the
\* verdict names gcd.
C29_Witness ==
    /\ mode.eval = "baseline"
    /\ code_result.defs = {"gcd", "lcm"}
    /\ eval_result.status = "pass" /\ eval_result.function = "gcd"

\* C30: every template of the rule-based Generator that defines a function
\* named in the oracle table is judged pass by the rule-based Critic on fresh
\* scratch files.
C30_OracleTemplatesPass ==
    (/\ mode.code = "baseline" /\ mode.eval = "baseline" /\ pc = "evaluate"
     /\ files = FreshFiles /\ Bound(code_result) # {})
        => /\ EvalAgent_run(code_result, files).raised = "none"
           /\ EvalAgent_run(code_result, files).verdict.status = "pass"

====
